---- MODULE Spec2Model ----
(***************************************************************************)
(* Model of the rate-controlled dispatch engine of package trunks          *)
(* (src/lib/burn.go): Burner.Burn (the scheduler goroutine and its         *)
(* deferred shutdown), Burner.burn (a worker goroutine), Burner.hit (one   *)
(* invocation) and Burner.Stop (the cancellation signal).                  *)
(*                                                                         *)
(* Time is an integer clock.  The source's clock counts nanoseconds, 1e9   *)
(* to the second; the model's clock counts Second units to the second, so  *)
(* the source's `1e9 / rate` is `Second \div rate` here and a duration is  *)
(* a number of such units (du = 3 with Second = 2 is 1.5 s).               *)
(***************************************************************************)
EXTENDS Integers, Sequences, FiniteSets

\* ---------------------------------------------------------------- bounds
Second   == 2    \* clock units per second (the source has 1e9)
MaxRate  == 2    \* rates tried: 1..MaxRate
MaxDu    == 3    \* durations tried: 1..MaxDu clock units
MaxCPU   == 1    \* runtime.NumCPU() ranges over 1..MaxCPU
MaxClock == 2    \* the clock advances freely up to here (and further while
                 \* the scheduler sleeps)
MaxStop  == 2    \* Stop() calls that may be in flight at once

\* Caps derived from the bounds: the pool grows to at most MaxPool workers,
\* and no run hands off more than MaxDone ticks (the largest hit count of the
\* runs tried; it caps the runs whose loop does not end by itself).
MaxPool  == MaxCPU + 1
MaxDone  == MaxRate * (MaxDu \div Second)

VARIABLES
    Workers,       \* Burner.Workers, set by GenBurner to runtime.NumCPU()
    stopch,        \* Burner.stopch: "nil", "open" or "closed"
    stopping,      \* Stop() calls that took the default branch and have not
                   \* yet executed close(b.stopch)
    panicked,      \* "" or the message of the run-time panic that ended
                   \* the process
    pc,            \* position of Burn and of its scheduler goroutine
    rate, du,      \* arguments of Burn
    interval, hits, began, done,   \* locals of the scheduler goroutine
    now, next,     \* locals of one pass of its loop (0 between passes)
    wake,          \* instant before which time.Sleep does not return
    clock,         \* the monotone clock read by time.Now and time.Since
    ticksClosed,   \* close(ticks) has run
    resultsClosed, \* close(results) has run
    wg,            \* counter of the sync.WaitGroup `workers`
    pool,          \* the worker goroutines, in the order they were started
    handed,        \* timestamps of the ticks handed off, in hand-off order
    received       \* Results the caller received, in order

vars == <<Workers, stopch, stopping, panicked, pc, rate, du, interval,
          hits, began, done, now, next, wake, clock, ticksClosed,
          resultsClosed, wg, pool, handed, received>>

sched == <<interval, hits, began, done, now, next, wake>>
chans == <<ticksClosed, resultsClosed>>
stopv == <<stopch, stopping>>

Max(a, b) == IF a >= b THEN a ELSE b

\* ------------------------------------------------------------ pure parts

\* interval := 1e9 / rate  (unsigned integer division)
Interval(r) == Second \div r

\* hits := rate * uint64(du.Seconds()): the conversion truncates the seconds
\* to a whole number before the multiplication.
Hits(r, d) == r * (d \div Second)

\* An intended instant counted from 1 instead of 0.
NextInstantFromOne(b, n, i) == b + (n + 1) * i

\* next := began.Add(time.Duration(done*interval))
NextInstant(b, n, i) == b + n * i

\* time.Sleep(next.Sub(now)) called at instant c: returns no earlier than
\* c + (next - now); a non-positive duration returns at once.
WakeInstant(c, nx, nw) == IF nx > nw THEN c + (nx - nw) ELSE c

\* A sleep that does not wait.
SleepReturnsAtOnce(c, w) == TRUE

\* time.Sleep has slept long enough at instant c.
SleepReturns(c, w) == c >= w

\* A timestamp that keeps only the offset within the second.
TickStampInSecond(nx, nw) == Max(nx, nw) % Second

\* The timestamp of the tick: max(next, now)
TickStamp(nx, nw) == Max(nx, nw)

\* An Error field taken from hit's outer `err`, which nothing assigns.
HitErrorOuter(failed) == ""

\* The Error field hit leaves in the Result: err.Error() when Invoke
\* returned an error, else the zero string.
HitError(failed) == IF failed THEN "unavailable" ELSE ""

\* A Result stamped with the completion instant instead of its tick.
hitStampedAtReturn(tm, c, failed) ==
    [Timestamp |-> c, Latency |-> c - tm, Error |-> HitError(failed),
     failed |-> failed]

\* The Result hit returns for tick tm when the invocation completes at
\* instant c: the deferred function stores time.Since(tm) through the
\* returned pointer.  `failed` records the invocation's outcome.
hit(tm, c, failed) ==
    [Timestamp |-> tm, Latency |-> c - tm, Error |-> HitError(failed),
     failed |-> failed]

NoResult == [Timestamp |-> 0, Latency |-> 0, Error |-> "", failed |-> FALSE]

\* A worker goroutine: "start" (started, not yet at its receive), "recv"
\* (blocked in `range ticks`), "hit" (invoking for tick tm), "send" (blocked
\* in `results <- res`), "exit" (returned, workers.Done() called).
NewWorker == [st |-> "start", tm |-> 0, res |-> NoResult]

Alive == panicked = ""

\* ------------------------------------------------------------------ Init
\* A Burner before Burn.  GenBurner leaves stopch nil; a Burner built inside
\* the package with `stopch: make(chan struct{})` has it open.
Init ==
    /\ Workers \in 1..MaxCPU
    /\ stopch \in {"nil", "open"}
    /\ stopping = 0
    /\ panicked = ""
    /\ pc = "idle"
    /\ rate = 0 /\ du = 0
    /\ interval = 0 /\ hits = 0 /\ began = 0 /\ done = 0
    /\ now = 0 /\ next = 0 /\ wake = 0
    /\ clock = 0
    /\ ticksClosed = FALSE
    /\ resultsClosed = FALSE
    /\ wg = 0
    /\ pool = << >>
    /\ handed = << >>
    /\ received = << >>

\* --------------------------------------------------------------- actions

\* Time passes.
Elapse ==
    /\ Alive
    /\ \/ clock < MaxClock
       \/ pc = "sleep" /\ clock < wake
    /\ clock' = clock + 1
    /\ UNCHANGED <<Workers, stopv, panicked, pc, rate, du, sched, chans, wg,
                   pool, handed, received>>

\* Burn(tgt, r, d): makes the channels, starts b.Workers workers and the
\* scheduler goroutine, returns the result stream.
Burn(r, d) ==
    /\ Alive
    /\ pc = "idle"
    /\ rate' = r
    /\ du' = d
    /\ wg' = Workers
    /\ pool' = [i \in 1..Workers |-> NewWorker]
    /\ pc' = "init"
    /\ UNCHANGED <<Workers, stopv, panicked, sched, clock, chans, handed,
                   received>>

\* interval, hits, began, done := ...
SchedInit ==
    /\ Alive
    /\ pc = "init"
    /\ interval' = Interval(rate)
    /\ hits' = Hits(rate, du)
    /\ began' = clock
    /\ done' = 0
    /\ pc' = "loop"
    /\ UNCHANGED <<Workers, stopv, panicked, rate, du, now, next, wake, clock,
                   chans, wg, pool, handed, received>>

\* now, next := time.Now(), began.Add(time.Duration(done*interval))
\* and the call of time.Sleep(next.Sub(now)), which returns at once when the
\* duration is not positive.
LoopTop ==
    /\ Alive
    /\ pc = "loop"
    /\ now' = clock
    /\ next' = NextInstant(began, done, interval)
    /\ LET w == WakeInstant(clock, NextInstant(began, done, interval), clock)
       IN  IF SleepReturns(clock, w)
             THEN wake' = 0 /\ pc' = "select"
             ELSE wake' = w /\ pc' = "sleep"
    /\ UNCHANGED <<Workers, stopv, panicked, rate, du, interval, hits, began,
                   done, clock, chans, wg, pool, handed, received>>

Wake ==
    /\ Alive
    /\ pc = "sleep"
    /\ SleepReturns(clock, wake)
    /\ wake' = 0
    /\ pc' = "select"
    /\ UNCHANGED <<Workers, stopv, panicked, rate, du, interval, hits, began,
                   done, now, next, clock, chans, wg, pool, handed, received>>

\* case ticks <- max(next, now): worker i is blocked in its receive and
\* takes the tick; done++; return when done == hits.
SendTick(i) ==
    /\ Alive
    /\ pc = "select"
    /\ i \in DOMAIN pool
    /\ pool[i].st = "recv"
    /\ Len(handed) < MaxDone
    /\ pool' = [pool EXCEPT ![i] = [st |-> "hit", tm |-> TickStamp(next, now),
                                    res |-> NoResult]]
    /\ handed' = Append(handed, TickStamp(next, now))
    /\ done' = done + 1
    /\ pc' = IF done + 1 = hits THEN "closeTicks" ELSE "loop"
    /\ now' = 0 /\ next' = 0
    /\ UNCHANGED <<Workers, stopv, panicked, rate, du, interval, hits, began,
                   wake, clock, chans, wg, received>>

\* case <-b.stopch: ready only when stopch is closed (a receive from a nil
\* or an open, empty channel is not ready); return.
SelectStop ==
    /\ Alive
    /\ pc = "select"
    /\ stopch = "closed"
    /\ pc' = "closeTicks"
    /\ now' = 0 /\ next' = 0
    /\ UNCHANGED <<Workers, stopv, panicked, rate, du, interval, hits, began,
                   done, wake, clock, chans, wg, pool, handed, received>>

\* A default branch taken although the stop case is ready.
SelectDefaultWhenStopped ==
    /\ Alive
    /\ pc = "select"
    /\ \A i \in DOMAIN pool : pool[i].st # "recv"
    /\ Len(pool) < MaxPool
    /\ wg' = wg + 1
    /\ pool' = Append(pool, NewWorker)
    /\ pc' = "loop"
    /\ now' = 0 /\ next' = 0
    /\ UNCHANGED <<Workers, stopv, panicked, rate, du, interval, hits, began,
                   done, wake, clock, chans, handed, received>>

\* A default branch that counts the failed hand-off as a hit.
SelectDefaultCounted ==
    /\ Alive
    /\ pc = "select"
    /\ stopch # "closed"
    /\ \A i \in DOMAIN pool : pool[i].st # "recv"
    /\ Len(pool) < MaxPool
    /\ wg' = wg + 1
    /\ pool' = Append(pool, NewWorker)
    /\ done' = done + 1
    /\ pc' = "loop"
    /\ now' = 0 /\ next' = 0
    /\ UNCHANGED <<Workers, stopv, panicked, rate, du, interval, hits, began,
                   wake, clock, chans, handed, received>>

\* default: taken only when neither case is ready; workers.Add(1) and one
\* more worker.
SelectDefault ==
    /\ Alive
    /\ pc = "select"
    /\ stopch # "closed"
    /\ \A i \in DOMAIN pool : pool[i].st # "recv"
    /\ Len(pool) < MaxPool
    /\ wg' = wg + 1
    /\ pool' = Append(pool, NewWorker)
    /\ pc' = "loop"
    /\ now' = 0 /\ next' = 0
    /\ UNCHANGED <<Workers, stopv, panicked, rate, du, interval, hits, began,
                   done, wake, clock, chans, handed, received>>

\* defer close(ticks)
CloseTicks ==
    /\ Alive
    /\ pc = "closeTicks"
    /\ ticksClosed' = TRUE
    /\ pc' = "wait"
    /\ UNCHANGED <<Workers, stopv, panicked, rate, du, sched, clock,
                   resultsClosed, wg, pool, handed, received>>

\* A Wait that does not wait.
WaitReturnsAtOnce(n) == TRUE

\* defer workers.Wait(): returns when the counter is zero.
WaitReturns(n) == n = 0

Wait ==
    /\ Alive
    /\ pc = "wait"
    /\ WaitReturns(wg)
    /\ pc' = "closeResults"
    /\ UNCHANGED <<Workers, stopv, panicked, rate, du, sched, clock, chans,
                   wg, pool, handed, received>>

\* defer close(results)
CloseResults ==
    /\ Alive
    /\ pc = "closeResults"
    /\ resultsClosed' = TRUE
    /\ pc' = "done"
    /\ UNCHANGED <<Workers, stopv, panicked, rate, du, sched, clock,
                   ticksClosed, wg, pool, handed, received>>

\* A started worker reaches `for tm := range ticks`.
WorkerStart(i) ==
    /\ Alive
    /\ i \in DOMAIN pool
    /\ pool[i].st = "start"
    /\ pool' = [pool EXCEPT ![i].st = "recv"]
    /\ UNCHANGED <<Workers, stopv, panicked, pc, rate, du, sched, clock,
                   chans, wg, handed, received>>

\* b.hit(tgt, tm): the invocation returns, failed or not.
Hit(i, failed) ==
    /\ Alive
    /\ i \in DOMAIN pool
    /\ pool[i].st = "hit"
    /\ pool' = [pool EXCEPT ![i] = [st |-> "send", tm |-> 0,
                                    res |-> hit(pool[i].tm, clock, failed)]]
    /\ UNCHANGED <<Workers, stopv, panicked, pc, rate, du, sched, clock,
                   chans, wg, handed, received>>

\* results <- res: the caller receives the Result.
Deliver(i) ==
    /\ Alive
    /\ i \in DOMAIN pool
    /\ pool[i].st = "send"
    /\ ~resultsClosed
    /\ received' = Append(received, pool[i].res)
    /\ pool' = [pool EXCEPT ![i] = [st |-> "recv", tm |-> 0, res |-> NoResult]]
    /\ UNCHANGED <<Workers, stopv, panicked, pc, rate, du, sched, clock,
                   chans, wg, handed>>

\* A worker that returns from its loop while the tick stream is open.
WorkerExitEarly(i) ==
    /\ Alive
    /\ i \in DOMAIN pool
    /\ pool[i].st = "recv"
    /\ pool' = [pool EXCEPT ![i].st = "exit"]
    /\ wg' = wg - 1
    /\ UNCHANGED <<Workers, stopv, panicked, pc, rate, du, sched, clock,
                   chans, handed, received>>

\* The range loop ends on the closed tick stream; defer workers.Done().
WorkerExit(i) ==
    /\ Alive
    /\ i \in DOMAIN pool
    /\ pool[i].st = "recv"
    /\ ticksClosed
    /\ pool' = [pool EXCEPT ![i].st = "exit"]
    /\ wg' = wg - 1
    /\ UNCHANGED <<Workers, stopv, panicked, pc, rate, du, sched, clock,
                   chans, handed, received>>

\* Stop(), the select: `case <-b.stopch: return` when the signal is closed,
\* else the default branch, which goes on to close(b.stopch).
StopSelect ==
    /\ Alive
    /\ stopping < MaxStop
    /\ stopping' = IF stopch = "closed" THEN stopping ELSE stopping + 1
    /\ UNCHANGED <<Workers, stopch, panicked, pc, rate, du, sched, clock,
                   chans, wg, pool, handed, received>>

\* Stop(), close(b.stopch): closing a nil channel or a closed channel is a
\* run-time panic, which ends the process.
StopClose ==
    /\ Alive
    /\ stopping > 0
    /\ stopping' = stopping - 1
    /\ CASE stopch = "open" ->
              stopch' = "closed" /\ panicked' = panicked
         [] stopch = "nil" ->
              panicked' = "close of nil channel" /\ stopch' = stopch
         [] stopch = "closed" ->
              panicked' = "close of closed channel" /\ stopch' = stopch
    /\ UNCHANGED <<Workers, pc, rate, du, sched, clock, chans, wg, pool,
                   handed, received>>

Next ==
    \/ Elapse
    \/ \E r \in 1..MaxRate, d \in 1..MaxDu : Burn(r, d)
    \/ SchedInit
    \/ LoopTop
    \/ Wake
    \/ \E i \in 1..MaxPool : SendTick(i)
    \/ SelectStop
    \/ SelectDefault
    \/ CloseTicks
    \/ Wait
    \/ CloseResults
    \/ \E i \in 1..MaxPool : WorkerStart(i)
    \/ \E i \in 1..MaxPool, f \in BOOLEAN : Hit(i, f)
    \/ \E i \in 1..MaxPool : Deliver(i)
    \/ \E i \in 1..MaxPool : WorkerExit(i)
    \/ StopSelect
    \/ StopClose

Spec == Init /\ [][Next]_vars

\* Every goroutine that can take a step eventually takes it; a select whose
\* stop case is ready again and again eventually chooses it (Go chooses
\* uniformly among the ready cases).  Nothing obliges anyone to call Burn or
\* Stop, but a Stop that has begun goes on to its close.
Select == (\E i \in 1..MaxPool : SendTick(i)) \/ SelectStop \/ SelectDefault

Fairness ==
    /\ WF_vars(Elapse)
    /\ WF_vars(SchedInit)
    /\ WF_vars(LoopTop)
    /\ WF_vars(Wake)
    /\ WF_vars(Select)
    /\ SF_vars(SelectStop)
    /\ WF_vars(CloseTicks)
    /\ WF_vars(Wait)
    /\ WF_vars(CloseResults)
    /\ WF_vars(StopClose)
    /\ \A i \in 1..MaxPool :
          /\ WF_vars(WorkerStart(i))
          /\ WF_vars(\E f \in BOOLEAN : Hit(i, f))
          /\ WF_vars(Deliver(i))
          /\ WF_vars(WorkerExit(i))

FairSpec == Spec /\ Fairness

\* ---------------------------------------------------------------- claims

\* No Stop() call has begun.
NoStop == stopping = 0 /\ stopch # "closed" /\ Alive

Exited == \A i \in DOMAIN pool : pool[i].st = "exit"

\* floor(R*D) for the run's rate and duration
FloorRD == (rate * du) \div Second

\* C1: a run in which Stop is never called delivers exactly floor(R*D)
\* Results and then closes the result stream: never more than floor(R*D), and
\* exactly that many once the stream is closed.
C1_ExactlyFloorRD ==
    (pc # "idle" /\ NoStop) =>
        /\ Len(received) <= FloorRD
        /\ resultsClosed => Len(received) = FloorRD

\* C2: the result stream is closed only after the tick stream is closed and
\* every worker has exited; no worker is left sending on a closed result
\* stream and the scheduler is never in its loop with the tick stream closed.
C2_CloseOrder ==
    /\ (pc \in {"closeResults", "done"} \/ resultsClosed) =>
           ticksClosed /\ Exited /\ wg = 0
    /\ \A i \in DOMAIN pool : pool[i].st = "send" => ~resultsClosed
    /\ pc \in {"loop", "sleep", "select"} => ~ticksClosed

C2_Witness ==
    /\ resultsClosed
    /\ Len(pool) > Workers
    /\ Len(received) = 2
    /\ stopch = "closed"

\* C3: on a Burner as GenBurner constructs it (stopch nil) no Stop() call
\* panics.
C3_StopSafe == stopch = "nil" => Alive

C5_StopTerminates == (pc # "idle" /\ stopping > 0) ~> resultsClosed

\* C6: a run in which Stop is not called delivers its target hit count of
\* Results and closes the result stream: it never delivers more than the
\* target, and has delivered exactly the target once the stream is closed.
C6_Completes ==
    (pc # "idle" /\ NoStop) =>
        /\ Len(received) <= hits
        /\ resultsClosed => Len(received) = hits

\* The Results produced so far: those received and those a worker is
\* blocked sending.
Sending == {i \in DOMAIN pool : pool[i].st = "send"}
Hitting == {i \in DOMAIN pool : pool[i].st = "hit"}
Produced == {received[k] : k \in DOMAIN received} \cup {pool[i].res : i \in Sending}

\* How many ticks with timestamp t were handed off, were received as
\* Results, are held by a worker.
HandedAt(t) == Cardinality({k \in DOMAIN handed : handed[k] = t})
ReceivedAt(t) == Cardinality({k \in DOMAIN received : received[k].Timestamp = t})
HeldAt(t) ==
    Cardinality({i \in Hitting : pool[i].tm = t}) +
    Cardinality({i \in Sending : pool[i].res.Timestamp = t})
Stamps ==
    {handed[k] : k \in DOMAIN handed} \cup {r.Timestamp : r \in Produced}
        \cup {pool[i].tm : i \in Hitting}

\* C7: every tick handed off is held by exactly one worker until exactly one
\* Result with the tick's timestamp is received for it, and when the result
\* stream is closed every tick handed off has been answered.
C7_OneResultPerTick ==
    /\ \A t \in Stamps : HandedAt(t) = ReceivedAt(t) + HeldAt(t)
    /\ resultsClosed =>
          /\ Len(received) = Len(handed)
          /\ \A t \in Stamps : HandedAt(t) = ReceivedAt(t)

\* A run stopped while an invocation was in flight, closed with two Results.
C7_Witness ==
    /\ resultsClosed
    /\ stopch = "closed"
    /\ Len(received) = 2
    /\ received[1].Timestamp # received[2].Timestamp
    /\ hits # 2

\* C8: a run without cancellation closes with as many Results as its hit
\* count whatever calls failed, and a Result's error is non-empty exactly
\* when its invocation failed.
C8_FailuresAreData ==
    /\ \A r \in Produced : (r.Error # "") <=> r.failed
    /\ (resultsClosed /\ stopch # "closed") => Len(received) = hits

C8_Witness ==
    /\ resultsClosed
    /\ stopch # "closed"
    /\ Len(received) = 2
    /\ received[1].failed
    /\ received[1].Error = "unavailable"
    /\ ~received[2].failed

\* C9: no tick is stamped later than the clock at its hand-off, and every
\* Result has latency >= 0, failed or not.
C9_LatencyNonNegative ==
    /\ \A k \in DOMAIN handed : handed[k] <= clock
    /\ \A i \in Hitting : pool[i].tm <= clock
    /\ \A r \in Produced : r.Latency >= 0

\* The scheduler slept for the second tick, whose failed invocation returned
\* at the very instant of the tick.
C9_Witness ==
    /\ Len(received) = 2
    /\ received[2].Timestamp > received[1].Timestamp
    /\ received[2].failed
    /\ received[2].Latency = 0
    /\ received[1].Latency > 0

\* C10: the timestamps of the ticks are non-decreasing in hand-off order.
C10_StampsNonDecreasing ==
    \A j, k \in DOMAIN handed : j < k => handed[j] <= handed[k]

\* Two ticks, the second handed off late after a worker was spawned.
C10_Witness ==
    /\ Len(handed) = 2
    /\ Len(pool) > Workers
    /\ handed[2] > began + interval
    /\ handed[1] = began

NoneReceiving == \A i \in DOMAIN pool : pool[i].st # "recv"

\* C12: a step of the scheduler's select taken with the cancellation signal
\* raised starts no worker.
C12_NoGrowthAfterStop ==
    [][(pc = "select" /\ stopch = "closed") =>
          (Len(pool') = Len(pool) /\ wg' <= wg)]_vars

\* The scheduler left its select by the stop case, short of its hit count,
\* with no worker ready to receive and the pool no larger than at the start.
C12_Witness ==
    /\ pc = "closeTicks"
    /\ stopch = "closed"
    /\ done # hits
    /\ Len(handed) = 1
    /\ NoneReceiving
    /\ Len(pool) = Workers

\* C13: when the scheduler leaves its select with no worker ready to receive
\* and the signal not raised, it has started exactly one more worker, on the
\* same streams, has handed off no tick, has left `done` as it was and is
\* back at the head of its loop.
C13_SpawnOneAndRetry ==
    [][(pc = "select" /\ pc' # "select" /\ NoneReceiving /\ stopch # "closed") =>
          /\ pool' = Append(pool, NewWorker)
          /\ wg' = wg + 1
          /\ done' = done
          /\ handed' = handed
          /\ pc' = "loop"
          /\ UNCHANGED chans]_vars

\* After the first tick the only worker was busy: one more was started, and
\* the scheduler is at its select again with `done` still 1.
C13_Witness ==
    /\ pc = "select"
    /\ Len(pool) = Workers + 1
    /\ pool[Len(pool)].st = "start"
    /\ done = 1
    /\ Len(handed) = 1
    /\ pool[1].st = "hit"

\* A worker that is not idle: it is invoking, or blocked sending its Result.
Busy(w) == w.st \in {"hit", "send"}

\* C14: the scheduler starts one more worker only when every worker started
\* so far is busy.
C14_SpawnOnlyWhenAllBusy ==
    [][(pc = "select" /\ Len(pool') > Len(pool)) =>
          \A i \in DOMAIN pool : Busy(pool[i])]_vars

\* The worker goroutines that have not returned.
Live == Cardinality({i \in DOMAIN pool : pool[i].st # "exit"})

\* Every worker goroutine has ended: each has returned from burn, or the
\* process has ended in a panic and all its goroutines with it.
Retired == Exited \/ ~Alive

\* C15: while the tick stream is open no step lowers the number of live
\* workers, and once it is closed every worker eventually ends.
C15_PoolOnlyGrows ==
    /\ [][~ticksClosed => Live' >= Live]_vars
    /\ ticksClosed ~> Retired

\* A run that grew its pool, delivered a Result and whose workers have all
\* returned after the close of the tick stream.
C15_Witness ==
    /\ ticksClosed
    /\ Exited
    /\ Alive
    /\ Len(pool) > Workers
    /\ Len(received) = 2

\* C16: the n-th tick handed off (0-based) is stamped no earlier than
\* began + n*interval, and exactly that when the pass read the clock no later
\* than that instant; n is the number of ticks handed off before it.
C16_NoEarlyTick ==
    [][Len(handed') = Len(handed) + 1 =>
          LET n == Len(handed)
              t == handed'[n + 1]
              intended == began + n * interval
          IN  /\ done = n
              /\ t >= intended
              /\ now <= intended => t = intended
              /\ now > intended => t = now]_vars

\* The first tick went out late, the second exactly at began + interval: the
\* lateness of the first pass did not move the second instant.
C16_Witness ==
    /\ began > 0
    /\ interval > 0
    /\ Len(handed) = 2
    /\ handed[1] > began
    /\ handed[2] = began + interval
    /\ Len(pool) > Workers

\* C17: a run never hands off more ticks than its computed hit count
\* rate * floor(seconds(D)); with a count of 0 it hands off none.
C17_AtMostHits == pc \notin {"idle", "init"} => Len(handed) <= hits

====
